---- MODULE Spec2Model ----
(***************************************************************************)
(* Model of proyectornt.py: the Streamlit dashboard that loads the RNT     *)
(* registry, keeps the rows of Quindio, builds a cosine-similarity matrix  *)
(* over "categoria municipio" and recommends establishments.               *)
(*                                                                         *)
(* Text is a sequence of one-character strings, so that substring search,  *)
(* case folding and tokenisation are computed and not assumed.  A pandas   *)
(* cell is a record [t, s, n]: t = "str" (text s), "num" (number n) or     *)
(* "nan" (missing).  Row labels and positions are 1-based here: the pandas *)
(* label L-1 is the label L of the model, and similaridad[L-1] of the code *)
(* is row L of the matrix of the model.                                    *)
(***************************************************************************)
EXTENDS Integers, Sequences, FiniteSets, TLC

\* ------------------------------------------------------------------ bounds
\* Longest source file (data rows) of the recommender specification.
MaxRows == 4
\* Longest source file (data rows) of the loader/statistics specification.
MaxLoadRows == 3

\* ------------------------------------------------------- program constants
SliderMin == 1
SliderMax == 10
SliderDefault == 5
\* CountVectorizer's default token pattern \b\w\w+\b: tokens of 2+ characters.
MinTokenLen == 2

\* -------------------------------------------------------------------- text
UpperCase == <<"A","B","C","D","E","F","G","H","I","J","K","L","M",
               "N","O","P","Q","R","S","T","U","V","W","X","Y","Z">>
LowerCase == <<"a","b","c","d","e","f","g","h","i","j","k","l","m",
               "n","o","p","q","r","s","t","u","v","w","x","y","z">>
DigitChars == <<"0","1","2","3","4","5","6","7","8","9">>

Range(s) == {s[i] : i \in DOMAIN s}

Min2(a, b) == IF a <= b THEN a ELSE b

\* The lower-case letter of each upper-case letter.
LowerOf == [c \in Range(UpperCase) |-> LowerCase[CHOOSE i \in DOMAIN UpperCase : UpperCase[i] = c]]

\* str.lower / re.IGNORECASE on one character.
Lower(c) == IF c \in DOMAIN LowerOf THEN LowerOf[c] ELSE c

WordChars == Range(UpperCase) \cup Range(LowerCase) \cup Range(DigitChars) \cup {"_"}

\* \w of the token pattern.
IsWordChar(c) == c \in WordChars

IsDigit(c) == c \in Range(DigitChars)

DigitValue(c) == (CHOOSE i \in DOMAIN DigitChars : DigitChars[i] = c) - 1

\* The sentinels and the region constant of the loader.
DESCONOCIDO == <<"D","E","S","C","O","N","O","C","I","D","O">>
NO_DISPONIBLE == <<"N","o"," ","d","i","s","p","o","n","i","b","l","e">>
QUINDIO == <<"Q","U","I","N","D","I","O">>

\* ------------------------------------------------------------------- cells
Str(s) == [t |-> "str", s |-> s, n |-> 0]
Num(k) == [t |-> "num", s |-> <<>>, n |-> k]
NaN == [t |-> "nan", s |-> <<>>, n |-> 0]

\* Field values pandas.read_csv reads as missing (the ones the inputs use).
NaValues == {<<>>, <<"N","A">>}

\* read_csv on one field: a missing marker becomes NaN, anything else is kept.
ReadCell(raw) == IF raw \in NaValues THEN NaN ELSE Str(raw)

IsNumeral(s) == Len(s) > 0 /\ \A i \in DOMAIN s : IsDigit(s[i])

RECURSIVE ParseNat(_)
ParseNat(s) ==
  IF Len(s) = 0 THEN 0
  ELSE 10 * ParseNat(SubSeq(s, 1, Len(s) - 1)) + DigitValue(s[Len(s)])

\* pd.to_numeric(..., errors="coerce") on one cell: a numeral parses, any other
\* text becomes missing (not an error, not zero).
ToNumeric(cell) ==
  IF cell.t = "str"
  THEN (IF IsNumeral(cell.s) THEN Num(ParseNat(cell.s)) ELSE NaN)
  ELSE cell

\* ----------------------------------------------------------------- columns
LoaderColumns ==
  {"RAZON_SOCIAL_ESTABLECIMIENTO", "NUMERO_DE_EMPLEADOS", "NUMERO_DE_CAMAS",
   "NUMERO_DE_HABITACIONES", "DEPARTAMENTO"}

CapacityColumns == {"NUMERO_DE_EMPLEADOS", "NUMERO_DE_CAMAS", "NUMERO_DE_HABITACIONES"}

FullHeader ==
  {"DEPARTAMENTO", "RAZON_SOCIAL", "RAZON_SOCIAL_ESTABLECIMIENTO", "CATEGORIA",
   "MUNICIPIO", "NUMERO_DE_HABITACIONES", "NUMERO_DE_CAMAS", "NUMERO_DE_EMPLEADOS"}

\* columns.str.strip().str.lower().str.replace(" ", "_") on the header names
\* the inputs use.
NormCol(c) ==
  CASE c = "DEPARTAMENTO" -> "departamento"
    [] c = "RAZON_SOCIAL" -> "razon_social"
    [] c = "RAZON_SOCIAL_ESTABLECIMIENTO" -> "razon_social_establecimiento"
    [] c = "CATEGORIA" -> "categoria"
    [] c = "MUNICIPIO" -> "municipio"
    [] c = "NUMERO_DE_HABITACIONES" -> "numero_de_habitaciones"
    [] c = "NUMERO_DE_CAMAS" -> "numero_de_camas"
    [] c = "NUMERO_DE_EMPLEADOS" -> "numero_de_empleados"
    [] OTHER -> c

RawCol(c) == CHOOSE r \in FullHeader : NormCol(r) = c

cols_numericas == {"numero_de_habitaciones", "numero_de_camas", "numero_de_empleados"}

\* ------------------------------------------------------------------ tables
\* A table: kind "table" with its column names and rows [label, cells], or
\* kind "none" (Python's None).
NoneTable == [kind |-> "none", columns |-> {}, rows |-> <<>>]

\* The pandas builds the script runs on differ in two places the model keeps:
\* the chained inplace fillna of line 24 (a no-op under copy-on-write, 3.x) and
\* a reduction over an object column (dropped as a nuisance column in 1.x, a
\* TypeError from 2.x on).
Builds == {"1.x", "2.x", "3.x"}

RECURSIVE KeepAt(_, _, _)
KeepAt(rows, keep, i) ==
  IF i > Len(rows) THEN <<>>
  ELSE (IF i \in keep THEN <<rows[i]>> ELSE <<>>) \o KeepAt(rows, keep, i + 1)

\* data[col].fillna("DESCONOCIDO", inplace=True)
FillNaNombre(rows, b) ==
  IF b = "3.x" THEN rows
  ELSE [i \in DOMAIN rows |->
         [rows[i] EXCEPT !.cells =
            [c \in DOMAIN rows[i].cells |->
               IF c = "RAZON_SOCIAL_ESTABLECIMIENTO" /\ rows[i].cells[c].t = "nan"
               THEN Str(DESCONOCIDO) ELSE rows[i].cells[c]]]]

\* The three pd.to_numeric assignments.
CoerceCapacity(rows) ==
  [i \in DOMAIN rows |->
     [rows[i] EXCEPT !.cells =
        [c \in DOMAIN rows[i].cells |->
           IF c \in CapacityColumns THEN ToNumeric(rows[i].cells[c])
           ELSE rows[i].cells[c]]]]

\* data[data["DEPARTAMENTO"] == "QUINDIO"].copy(): the kept rows keep their labels.
FiltrarQuindio(rows) ==
  KeepAt(rows, {i \in DOMAIN rows : rows[i].cells["DEPARTAMENTO"] = Str(QUINDIO)}, 1)

\* The renaming of the columns.
RenameColumns(rows, header) ==
  [i \in DOMAIN rows |->
     [rows[i] EXCEPT !.cells =
        [c \in {NormCol(h) : h \in header} |->
           rows[i].cells[CHOOSE h \in header : NormCol(h) = c]]]]

\* The loader without its table-wide fill.
FillNaAll_skip(rows) == rows

\* df.fillna("No disponible", inplace=True)
FillNaAll(rows) ==
  [i \in DOMAIN rows |->
     [rows[i] EXCEPT !.cells =
        [c \in DOMAIN rows[i].cells |->
           IF rows[i].cells[c].t = "nan" THEN Str(NO_DISPONIBLE) ELSE rows[i].cells[c]]]]

\* df.drop_duplicates(inplace=True): rows equal in every column, first kept.
DropDuplicates(rows) ==
  KeepAt(rows, {i \in DOMAIN rows : \A j \in 1..(i - 1) : rows[j].cells # rows[i].cells}, 1)

\* pd.read_csv: the frame with the default RangeIndex.
ReadCsv(f) ==
  [i \in DOMAIN f.rows |->
     [label |-> i, cells |-> [c \in f.header |-> ReadCell(f.rows[i][c])]]]

\* Whether the body of cargar_datos raises nothing on this file.
Loadable(f) == f.kind = "csv" /\ LoaderColumns \subseteq f.header

cargar_datos(f, b) ==
  IF ~Loadable(f) THEN NoneTable
  ELSE [kind |-> "table",
        columns |-> {NormCol(h) : h \in f.header},
        rows |-> DropDuplicates(FillNaAll(RenameColumns(
                   FiltrarQuindio(CoerceCapacity(FillNaNombre(ReadCsv(f), b))),
                   f.header)))]

\* -------------------------------------------------------------- similarity
\* CountVectorizer's analyzer on one document: lower-cased maximal runs of
\* word characters, those of MinTokenLen characters or more.
RECURSIVE Tokenize(_, _, _)
Tokenize(s, i, cur) ==
  LET done == IF Len(cur) >= MinTokenLen THEN <<cur>> ELSE <<>>
  IN IF i > Len(s) THEN done
     ELSE IF IsWordChar(s[i]) THEN Tokenize(s, i + 1, Append(cur, Lower(s[i])))
     ELSE done \o Tokenize(s, i + 1, <<>>)

\* The dot product of the term-count vectors of two token lists.
Dot(ta, tb) == Cardinality({p \in (DOMAIN ta) \X (DOMAIN tb) : ta[p[1]] = tb[p[2]]})

\* The squared cosine of two count vectors as a fraction <<num, den>>, den > 0;
\* a zero vector has similarity 0 with everything (sklearn's normalize leaves it
\* zero).  Cosines of count vectors are >= 0, so the squares order as they do.
\* The arithmetic is exact: rows with the same tokens get equal scores, as the
\* floating-point product gives them (same operands, same order).
Cosine(ta, tb) ==
  IF Dot(ta, ta) = 0 \/ Dot(tb, tb) = 0 THEN <<0, 1>>
  ELSE <<Dot(ta, tb) * Dot(ta, tb), Dot(ta, ta) * Dot(tb, tb)>>

ScoreGT(a, b) == a[1] * b[2] > b[1] * a[2]
ScoreEQ(a, b) == a[1] * b[2] = b[1] * a[2]

NoMatrix == <<>>

\* The decimal digits of a natural number.
RECURSIVE Numeral(_)
Numeral(k) ==
  IF k < 10 THEN <<DigitChars[k + 1]>>
  ELSE Numeral(k \div 10) \o <<DigitChars[(k % 10) + 1]>>

\* Series.astype(str) on one cell: text as it is, a float as "10.0", NaN as "nan".
AsStr(cell) ==
  CASE cell.t = "str" -> cell.s
    [] cell.t = "num" -> Numeral(cell.n) \o <<".", "0">>
    [] OTHER -> <<"n", "a", "n">>

\* df["info"] = df["categoria"].astype(str) + " " + df["municipio"].astype(str)
InfoText(cells) == AsStr(cells["categoria"]) \o <<" ">> \o AsStr(cells["municipio"])

WithInfo(df) ==
  [df EXCEPT !.columns = @ \cup {"info"},
             !.rows = [i \in DOMAIN df.rows |->
                        [df.rows[i] EXCEPT !.cells =
                           [c \in df.columns \cup {"info"} |->
                              IF c = "info" THEN Str(InfoText(df.rows[i].cells))
                              ELSE df.rows[i].cells[c]]]]]

\* The body of calcular_similitud: the error it raises ("none" when it
\* returns), the frame as the call leaves it, and the matrix.
calcular_similitud(df) ==
  IF ~({"categoria", "municipio"} \subseteq df.columns)
  THEN [error |-> "KeyError", df |-> df, matriz |-> NoMatrix]
  ELSE LET out == WithInfo(df)
           toks == [i \in DOMAIN out.rows |-> Tokenize(out.rows[i].cells["info"].s, 1, <<>>)]
       IN IF \A i \in DOMAIN toks : toks[i] = <<>>
          THEN [error |-> "ValueError", df |-> out, matriz |-> NoMatrix]
          ELSE [error |-> "none", df |-> out,
                matriz |-> [i \in DOMAIN toks |-> [j \in DOMAIN toks |-> Cosine(toks[i], toks[j])]]]

\* ------------------------------------------------------------- recommender
\* re.search(pat, text, re.IGNORECASE) at one offset, for patterns of literal
\* characters and the wildcard "." (str.contains searches a regex).
MatchAt(pat, text, i) ==
  \A k \in DOMAIN pat : pat[k] = "." \/ Lower(pat[k]) = Lower(text[i + k - 1])

Contains(pat, text) ==
  \E i \in 1..(Len(text) - Len(pat) + 1) : MatchAt(pat, text, i)

\* sorted(enumerate(row), key=score, reverse=True): Python's sort is stable,
\* reverse=True keeps equal scores in their original order.
Before(row, j, k) == ScoreGT(row[j], row[k]) \/ (ScoreEQ(row[j], row[k]) /\ j < k)

SortedScores(row) ==
  [r \in DOMAIN row |->
     CHOOSE j \in DOMAIN row : Cardinality({k \in DOMAIN row : Before(row, k, j)}) = r - 1]

\* The slice taken from the head of the ranking: scores[0:n+1].
TopIndices_fromFirst(scores, n) == SubSeq(scores, 1, Min2(n + 1, Len(scores)))

\* [i[0] for i in scores[1:n+1]]
TopIndices(scores, n) == SubSeq(scores, 2, Min2(n + 1, Len(scores)))

NotCalled == [kind |-> "notcalled", indices |-> <<>>, rows |-> <<>>]
ResNone == [kind |-> "none", indices |-> <<>>, rows |-> <<>>]
ResKeyError == [kind |-> "KeyError", indices |-> <<>>, rows |-> <<>>]

\* recomendar_establecimientos: kind "table" with the positions taken and the
\* rows returned, kind "none" (the IndexError branch), or the KeyError that
\* escapes when the frame has no razon_social column.
recomendar_establecimientos(nombre, df, similaridad, n) ==
  IF "razon_social" \notin df.columns THEN ResKeyError
  ELSE LET hits == {p \in DOMAIN df.rows :
                      /\ df.rows[p].cells["razon_social"].t = "str"
                      /\ Contains(nombre, df.rows[p].cells["razon_social"].s)}
       IN IF hits = {} THEN ResNone
          ELSE LET first == CHOOSE p \in hits : \A q \in hits : p <= q
                   idx == df.rows[first].label
               IN IF idx > Len(similaridad) THEN ResNone
                  ELSE LET indices == TopIndices(SortedScores(similaridad[idx]), n)
                       IN [kind |-> "table",
                           indices |-> indices,
                           rows |-> [r \in DOMAIN indices |->
                                      [label |-> df.rows[indices[r]].label,
                                       razon_social |-> df.rows[indices[r]].cells["razon_social"],
                                       categoria |-> df.rows[indices[r]].cells["categoria"],
                                       municipio |-> df.rows[indices[r]].cells["municipio"]]]]

\* -------------------------------------------------------------- statistics
ColumnCells(df, c) == [i \in DOMAIN df.rows |-> df.rows[i].cells[c]]

\* The numbers of a column, in row order.
RECURSIVE NumbersOf(_)
NumbersOf(cells) ==
  IF Len(cells) = 0 THEN <<>>
  ELSE (IF cells[1].t = "num" THEN <<cells[1].n>> ELSE <<>>) \o NumbersOf(Tail(cells))

RECURSIVE SumSeq(_)
SumSeq(v) == IF Len(v) = 0 THEN 0 ELSE v[1] + SumSeq(Tail(v))

\* The k-th smallest of a non-empty list of numbers.
Kth(v, k) ==
  CHOOSE x \in Range(v) :
    /\ Cardinality({i \in DOMAIN v : v[i] < x}) < k
    /\ k <= Cardinality({i \in DOMAIN v : v[i] <= x})

\* What the reductions give on a column without a number: NaN, written as the
\* fraction <<0, 0>> and as -1.
DescribeEmpty ==
  [Media |-> <<0, 0>>, Mediana2 |-> -1, Varianza |-> <<0, 0>>, Minimo |-> -1, Maximo |-> -1]

\* mean, median, std (ddof = 1), min and max of a list of numbers, in exact
\* arithmetic: the mean as <<sum, count>>, the median doubled, the standard
\* deviation by its square <<m * sum(x^2) - sum(x)^2, m * (m - 1)>>.
Describe(v) ==
  LET m == Len(v)
      sum == SumSeq(v)
      sq == SumSeq([i \in DOMAIN v |-> v[i] * v[i]])
  IN IF m = 0 THEN DescribeEmpty ELSE
     [Media |-> <<sum, m>>,
      Mediana2 |-> IF m % 2 = 1 THEN 2 * Kth(v, (m + 1) \div 2)
                   ELSE Kth(v, m \div 2) + Kth(v, m \div 2 + 1),
      Varianza |-> <<m * sq - sum * sum, m * (m - 1)>>,
      Minimo |-> Kth(v, 1),
      Maximo |-> Kth(v, m)]

\* A column fillna("No disponible") wrote text into has dtype object.
IsObjectColumn(df, c) == \E i \in DOMAIN df.rows : df.rows[i].cells[c].t = "str"

StatsNotCalled == [kind |-> "notcalled", cols |-> <<>>]
StatsSkipped == [kind |-> "skipped", cols |-> <<>>]
StatsTypeError == [kind |-> "TypeError", cols |-> <<>>]

\* The descriptive statistics of tab3: skipped when a capacity column is
\* absent; a reduction over an object column raises TypeError (pandas 2.x, 3.x)
\* or leaves the column out of the result (pandas 1.x).
EstadisticasNumericas(df, b) ==
  IF ~(cols_numericas \subseteq df.columns) THEN StatsSkipped
  ELSE LET obj == {c \in cols_numericas : IsObjectColumn(df, c)}
       IN IF obj # {} /\ b # "1.x" THEN StatsTypeError
          ELSE [kind |-> "table",
                cols |-> [c \in cols_numericas \ obj |-> Describe(NumbersOf(ColumnCells(df, c)))]]

\* -------------------------------------------------------------------- main
\* The search run whatever the text box holds.
QueryGiven_always(nombre) == TRUE

\* `if nombre:`
QueryGiven(nombre) == nombre # <<>>

\* The search button of tab1.
BuscarRecomendaciones(nombre, df, similaridad, n, boton) ==
  IF ~boton THEN [resultado |-> NotCalled, mensaje |-> "none"]
  ELSE IF QueryGiven(nombre)
  THEN LET r == recomendar_establecimientos(nombre, df, similaridad, n)
       IN [resultado |-> r,
           mensaje |-> CASE r.kind = "table" -> "success"
                         [] r.kind = "none" -> "not_found"
                         [] OTHER -> "none"]
  ELSE [resultado |-> NotCalled, mensaje |-> "prompt"]

\* main without its check of the loader's result.
LoadFailed_never(df) == FALSE

\* `if df_filtrado_quindio is None:`
LoadFailed(df) == df.kind = "none"

\* Equality of two frames: columns first, then the rows.
TableEq(a, b) == a.kind = b.kind /\ a.columns = b.columns /\ a.rows = b.rows

\* st.cache_data on cargar_datos(): no argument, so one entry for ever; a
\* returned None is an entry like any other.
CachedCargarDatos(cache, f, b) == IF cache.full THEN cache.val ELSE cargar_datos(f, b)

\* st.cache_data on calcular_similitud(df): keyed by the frame's content.  A
\* hit returns the stored matrix and does not run the body; a call that raises
\* stores nothing.
CachedCalcularSimilitud(cache, df) ==
  LET hit == {e \in cache : TableEq(e.key, df)}
  IN IF hit # {}
     THEN [error |-> "none", df |-> df, matriz |-> (CHOOSE e \in hit : TRUE).val, cache |-> cache]
     ELSE LET r == calcular_similitud(df)
          IN [error |-> r.error, df |-> r.df, matriz |-> r.matriz,
              cache |-> IF r.error = "none" THEN cache \cup {[key |-> df, val |-> r.matriz]}
                        ELSE cache]

\* One run of main(): what it leaves behind.  (The charts of tab2 and the
\* counters of tab3 read the frame and keep nothing.)
Main(f, b, cl, cs, nom, k, pressed) ==
  LET loaded == CachedCargarDatos(cl, f, b)
      base == [cacheLoad |-> [full |-> TRUE, val |-> loaded], cacheSim |-> cs,
               df |-> loaded, similaridad |-> NoMatrix, resultado |-> NotCalled,
               stats |-> StatsNotCalled, mensaje |-> "none", aviso |-> FALSE,
               widgets |-> FALSE, fault |-> "none"]
  IN IF LoadFailed(loaded) THEN [base EXCEPT !.aviso = TRUE]
     ELSE LET sim == CachedCalcularSimilitud(cs, loaded)
          IN IF sim.error # "none" THEN [base EXCEPT !.df = sim.df, !.fault = sim.error]
             ELSE LET t1 == BuscarRecomendaciones(nom, sim.df, sim.matriz, k, pressed)
                      shown == [base EXCEPT !.cacheSim = sim.cache, !.df = sim.df,
                                            !.similaridad = sim.matriz, !.widgets = TRUE,
                                            !.resultado = t1.resultado, !.mensaje = t1.mensaje]
                  IN IF t1.resultado.kind = "KeyError" THEN [shown EXCEPT !.fault = "KeyError"]
                     ELSE LET st == EstadisticasNumericas(sim.df, b)
                          IN IF st.kind = "TypeError"
                             THEN [shown EXCEPT !.stats = st, !.fault = "TypeError"]
                             ELSE [shown EXCEPT !.stats = st]

\* ------------------------------------------------------------------- state
VARIABLES
  file,               \* the CSV on disk
  build,              \* the pandas build of the deployment
  cacheLoad,          \* st.cache_data of cargar_datos
  cacheSim,           \* st.cache_data of calcular_similitud
  df_filtrado_quindio,\* the frame of the last run, as the run left it
  similaridad,        \* the matrix of the last run
  nombre, n, boton,   \* the widgets' values in the last run
  resultado,          \* what recomendar_establecimientos returned in the last run
  descriptive_stats,  \* the statistics table of the last run
  mensaje,            \* the message of tab1 in the last run
  aviso,              \* the load warning was shown in the last run
  fault,              \* the exception that escaped main in the last run
  widgets,            \* the last run rendered the controls of tab1
  fileSeen,           \* history: the file on disk during the last run
  loadedFrom          \* history: the file the body of cargar_datos read

vars == <<file, build, cacheLoad, cacheSim, df_filtrado_quindio, similaridad, nombre, n,
          boton, resultado, descriptive_stats, mensaje, aviso, fault, widgets, fileSeen,
          loadedFrom>>

NoFile == [kind |-> "unread", header |-> {}, rows |-> <<>>]

\* The process has started and the script has not run yet.
Start(f, b) ==
  /\ file = f
  /\ build = b
  /\ cacheLoad = [full |-> FALSE, val |-> NoneTable]
  /\ cacheSim = {}
  /\ df_filtrado_quindio = NoneTable
  /\ similaridad = NoMatrix
  /\ nombre = <<>>
  /\ n = SliderDefault
  /\ boton = FALSE
  /\ resultado = NotCalled
  /\ descriptive_stats = StatsNotCalled
  /\ mensaje = "none"
  /\ aviso = FALSE
  /\ fault = "none"
  /\ widgets = FALSE
  /\ fileSeen = NoFile
  /\ loadedFrom = NoFile

\* Streamlit runs main() from the top: on the page load, with the controls at
\* their defaults, and again on every interaction with a control the last run
\* rendered.
Rerun(nom, k, pressed) ==
  /\ k \in SliderMin..SliderMax
  /\ widgets \/ (nom = <<>> /\ k = SliderDefault /\ ~pressed)
  /\ \E out \in {Main(file, build, cacheLoad, cacheSim, nom, k, pressed)} :
        /\ cacheLoad' = out.cacheLoad
        /\ cacheSim' = out.cacheSim
        /\ df_filtrado_quindio' = out.df
        /\ similaridad' = out.similaridad
        /\ resultado' = out.resultado
        /\ descriptive_stats' = out.stats
        /\ mensaje' = out.mensaje
        /\ aviso' = out.aviso
        /\ fault' = out.fault
        /\ widgets' = out.widgets
  /\ nombre' = nom
  /\ n' = k
  /\ boton' = pressed
  /\ fileSeen' = file
  /\ loadedFrom' = IF cacheLoad.full THEN loadedFrom ELSE file
  /\ UNCHANGED <<file, build>>

\* The file on disk is replaced, removed or put in place between two runs.
ChangeFile(f) ==
  /\ f # file
  /\ file' = f
  /\ UNCHANGED <<build, cacheLoad, cacheSim, df_filtrado_quindio, similaridad, nombre, n,
                 boton, resultado, descriptive_stats, mensaje, aviso, fault, widgets,
                 fileSeen, loadedFrom>>

\* ------------------------------------------------------------------ inputs
SOL == <<"S","o","l">>
LUNA == <<"L","u","n","a">>
HOTEL == <<"H","O","T","E","L">>
BAR == <<"B","A","R">>
ARMENIA == <<"A","R","M","E","N","I","A">>
SALENTO == <<"S","A","L","E","N","T","O">>
CALDAS == <<"C","A","L","D","A","S">>

\* One line of the CSV under the full header.
Row(dep, rs, est, cat, mun, hab, cam, emp) ==
  [c \in FullHeader |->
     CASE c = "DEPARTAMENTO" -> dep
       [] c = "RAZON_SOCIAL" -> rs
       [] c = "RAZON_SOCIAL_ESTABLECIMIENTO" -> est
       [] c = "CATEGORIA" -> cat
       [] c = "MUNICIPIO" -> mun
       [] c = "NUMERO_DE_HABITACIONES" -> hab
       [] c = "NUMERO_DE_CAMAS" -> cam
       [] c = "NUMERO_DE_EMPLEADOS" -> emp]

\* A CSV file with this header and these lines.
Csv(header, lines) ==
  [kind |-> "csv", header |-> header,
   rows |-> [i \in DOMAIN lines |-> [c \in header |-> lines[i][c]]]]

MissingFile == [kind |-> "missing", header |-> {}, rows |-> <<>>]
GarbledFile == [kind |-> "garbled", header |-> {}, rows |-> <<>>]

SeqsUpTo(S, m) == UNION {[1..k -> S] : k \in 0..m}

\* Lines of the recommender's files: two rows with the same category and
\* locality, rows that share one word or none with them, and a row of another
\* department.
RowSolHotelArmenia == Row(QUINDIO, SOL, SOL, HOTEL, ARMENIA, <<"1">>, <<"1">>, <<"1">>)
RowLunaHotelArmenia == Row(QUINDIO, LUNA, LUNA, HOTEL, ARMENIA, <<"1">>, <<"1">>, <<"1">>)
RowLunaHotelSalento == Row(QUINDIO, LUNA, LUNA, HOTEL, SALENTO, <<"1">>, <<"1">>, <<"1">>)
RowSolBarSalento == Row(QUINDIO, SOL, SOL, BAR, SALENTO, <<"1">>, <<"1">>, <<"1">>)
RowCaldas == Row(CALDAS, SOL, SOL, HOTEL, ARMENIA, <<"1">>, <<"1">>, <<"1">>)

RecRows ==
  {RowSolHotelArmenia, RowLunaHotelArmenia, RowLunaHotelSalento, RowSolBarSalento, RowCaldas}

RecFiles == {Csv(FullHeader, ls) : ls \in SeqsUpTo(RecRows, MaxRows)}

Queries == {<<>>, <<"s","o","l">>, <<"L","U">>, <<"x">>}

NChoices == {SliderMin, SliderMax}

\* Lines of the loader's files: capacity fields that are numerals, empty or
\* other text, and empty text fields.
RowHab10 == Row(QUINDIO, SOL, SOL, HOTEL, ARMENIA, <<"1","0">>, <<"4">>, <<"2">>)
RowHab20 == Row(QUINDIO, LUNA, <<>>, HOTEL, ARMENIA, <<"2","0">>, <<"4">>, <<"2">>)
RowHab30 == Row(QUINDIO, SOL, SOL, BAR, SALENTO, <<"3","0">>, <<"6">>, <<"2">>)
RowHabEmpty == Row(QUINDIO, LUNA, LUNA, BAR, SALENTO, <<>>, <<"4">>, <<"2">>)
RowHabText == Row(QUINDIO, <<>>, SOL, <<"N","A">>, SALENTO, <<"N","D">>, <<>>, <<"2">>)
RowCaldasEmpty == Row(CALDAS, SOL, <<>>, HOTEL, ARMENIA, <<>>, <<"4">>, <<"2">>)

LoadRows == {RowHab10, RowHab20, RowHab30, RowHabEmpty, RowHabText, RowCaldasEmpty}

LoadFiles == {Csv(FullHeader, ls) : ls \in SeqsUpTo(LoadRows, MaxLoadRows)}

LoadQueries == {<<>>, <<"n","o">>}

\* The files the dashboard specification moves between: absent, unparseable,
\* well-formed, without a column the loader, the similarity or the recommender
\* reads, without a row of Quindio, and with an empty capacity field.
DashFiles ==
  {MissingFile, GarbledFile,
   Csv(FullHeader, <<RowSolHotelArmenia, RowLunaHotelSalento>>),
   Csv(FullHeader, <<RowCaldas, RowSolBarSalento, RowLunaHotelArmenia>>),
   Csv(FullHeader \ {"NUMERO_DE_CAMAS"}, <<RowSolHotelArmenia, RowLunaHotelSalento>>),
   Csv(FullHeader \ {"RAZON_SOCIAL"}, <<RowSolHotelArmenia, RowLunaHotelSalento>>),
   Csv(FullHeader \ {"CATEGORIA"}, <<RowSolHotelArmenia>>),
   Csv(FullHeader, <<RowCaldas>>),
   Csv(FullHeader, <<RowHab10, RowHabEmpty>>)}

\* ---------------------------------------------------------- specifications
\* The recommender: one file, the page load and searches.
Init == \E f \in RecFiles : Start(f, "2.x")

Next ==
  \/ Rerun(<<>>, SliderDefault, FALSE)
  \/ \E nom \in Queries, k \in NChoices : Rerun(nom, k, TRUE)

Spec == Init /\ [][Next]_vars

\* The loader and the statistics: one file, every pandas build.
InitLoad == \E f \in LoadFiles, b \in Builds : Start(f, b)

NextLoad ==
  \/ Rerun(<<>>, SliderDefault, FALSE)
  \/ \E nom \in LoadQueries : Rerun(nom, SliderDefault, TRUE)

SpecLoad == InitLoad /\ [][NextLoad]_vars

\* The dashboard over time: runs interleaved with changes of the file.
InitDash == \E f \in DashFiles, b \in Builds : Start(f, b)

NextDash ==
  \/ Rerun(<<>>, SliderDefault, FALSE)
  \/ \E nom \in Queries, k \in NChoices : Rerun(nom, k, TRUE)
  \/ \E f \in DashFiles : ChangeFile(f)

SpecDash == InitDash /\ [][NextDash]_vars

\* ------------------------------------------------------------------ claims
\* The claims speak of the frame and the widgets of the last run.
R == Len(df_filtrado_quindio.rows)

\* "contains the query as a case-insensitive substring".
LiteralContains(q, text) ==
  \E i \in 1..(Len(text) - Len(q) + 1) :
    \A k \in DOMAIN q : Lower(q[k]) = Lower(text[i + k - 1])

\* The positions of the rows whose trade name contains the query.
ClaimMatches ==
  IF "razon_social" \in df_filtrado_quindio.columns
  THEN {p \in DOMAIN df_filtrado_quindio.rows :
          LiteralContains(nombre, df_filtrado_quindio.rows[p].cells["razon_social"].s)}
  ELSE {}

\* The matched row: the first one in table order.
MatchedRow == CHOOSE p \in ClaimMatches : \A q \in ClaimMatches : p <= q

\* C1: when the query matches a trade name of a table of two rows or more, the
\* rows recommend returns never include the matched row (the first row in
\* table order whose trade name contains the query).
C1_NeverReturnsMatchedRow ==
  (resultado.kind = "table" /\ R >= 2 /\ ClaimMatches # {})
    => \A r \in DOMAIN resultado.indices : resultado.indices[r] # MatchedRow

\* C2: recommend returns NotFound if and only if no row's trade name contains
\* the query: a query that matches a row yields a table, a query that matches
\* none yields NotFound.
C2_NotFoundIffNoMatch ==
  resultado.kind # "notcalled"
    => /\ ClaimMatches # {} => resultado.kind = "table"
       /\ ClaimMatches = {} => resultado.kind = "none"

\* C3: the returned rows are in non-increasing order of the matched row's own
\* scores matrix[p][j], p the position of the matched row, and rows of equal
\* score are in ascending position.
C3_RankedByMatchedRowScores ==
  (resultado.kind = "table" /\ ClaimMatches # {})
    => \A a, b \in DOMAIN resultado.indices :
         a < b => Before(similaridad[MatchedRow], resultado.indices[a], resultado.indices[b])

\* C4: a successful recommend call returns no more than n rows and no more
\* than R-1 rows.
C4_AtMostNAndRMinusOne ==
  resultado.kind = "table" => Len(resultado.rows) <= n /\ Len(resultado.rows) <= R - 1

\* A call whose n exceeds the candidates there are, clamped to R-1 rows.
C4_Witness ==
  resultado.kind = "table" /\ R >= 3 /\ n > R - 1 /\ Len(resultado.rows) = R - 1

\* C5: the statistics of each capacity column are those of its numbers alone:
\* the cells holding the sentinel text are left out and not counted as zero.
C5_StatsOverNumbersOnly ==
  descriptive_stats.kind \in {"table", "TypeError"}
    => \A c \in cols_numericas :
         LET nums == NumbersOf(ColumnCells(df_filtrado_quindio, c))
         IN nums # <<>>
              => /\ descriptive_stats.kind = "table"
                 /\ c \in DOMAIN descriptive_stats.cols
                 /\ descriptive_stats.cols[c] = Describe(nums)

\* The field of the source file a cell of the loaded table comes from.
SourceField(row, c) == loadedFrom.rows[row.label][RawCol(c)]

\* C6: no cell of a table the loader returns is missing: each holds the data of
\* the source (as read, or as a number) or one of the two sentinel strings.
C6_NoMissingCell ==
  cacheLoad.val.kind = "table"
    => \A i \in DOMAIN cacheLoad.val.rows : \A c \in cacheLoad.val.columns :
         LET cell == cacheLoad.val.rows[i].cells[c]
             read == ReadCell(SourceField(cacheLoad.val.rows[i], c))
         IN /\ cell.t # "nan"
            /\ \/ cell = Str(NO_DISPONIBLE)
               \/ cell = Str(DESCONOCIDO)
               \/ cell = read
               \/ cell = ToNumeric(read)

\* A loaded table with a capacity cell whose source text is no number and no
\* missing marker, now holding the sentinel.
C6_Witness ==
  /\ cacheLoad.val.kind = "table"
  /\ \E i \in DOMAIN cacheLoad.val.rows :
       LET raw == SourceField(cacheLoad.val.rows[i], "numero_de_habitaciones")
       IN /\ raw \notin NaValues
          /\ ~IsNumeral(raw)
          /\ cacheLoad.val.rows[i].cells["numero_de_habitaciones"] = Str(NO_DISPONIBLE)

C8_EmptyQueryRejected ==
  (boton /\ nombre = <<>>) => (resultado.kind = "notcalled" /\ mensaje = "prompt")

\* The button pressed on an empty text box.
C8_Witness == boton /\ nombre = <<>> /\ widgets /\ mensaje = "prompt"

\* C9: the table a request uses is the one derived from the source file as it
\* is at that request, never one computed for an earlier version of the file
\* or an earlier failure.
C9_TableFromCurrentSource ==
  cacheLoad.full => TableEq(cacheLoad.val, cargar_datos(fileSeen, build))

\* C10: calcular_similitud leaves the table as it was: the frame the
\* recommender and the reports of a run see has the columns and the cells the
\* loader returned, whether the matrix was computed or served from the cache.
C10_SimilarityLeavesTableUnchanged ==
  widgets => TableEq(df_filtrado_quindio, cacheLoad.val)

====
